---- MODULE Spec2Model ----
(***************************************************************************)
(* Verification model of wedjat (dwadden/wedjat).                          *)
(*                                                                         *)
(* Part I  : the scan-and-select automaton of src/src/wedjat.js (menus,    *)
(*           buttons, the confirm-vs-timeout race), specification Spec.    *)
(* Part II : the gaze detector of src/src/detector.js (template matching,  *)
(*           poll timers, mode switches), specification DetSpec.           *)
(* Part III: the buttons of the modular implementation                     *)
(*           (src/src/menu-button.js), specification ButtonSpec.           *)
(* Part IV : the guess menu and its web queries (src/src/menu-button.js),  *)
(*           specification GuessSpec.                                      *)
(*                                                                         *)
(* JavaScript runs every handler to completion, so each handler is one     *)
(* action.  Handlers call each other synchronously (onTimeout -> cbpassed  *)
(* -> scanAt -> button.scan); such calls are composed as operators over a  *)
(* record holding the whole automaton state.                               *)
(***************************************************************************)
EXTENDS Integers, Sequences, FiniteSets, TLC

VARIABLES
    cycles,          \* log of arm cycles (calls of Button.scan), in order
    listeners,       \* gaze listeners registered with the detector (onPress closures, by arm cycle)
    timers,          \* pending setTimeout / utterance callbacks: [kind, cyc]
    startListeners,  \* extended-gaze listeners registered (start buttons)
    on,              \* button highlighting (classList buttonOn), per button
    visible,         \* menu div slid down (TRUE) or up (FALSE)
    buttonValue,     \* text of the start/stop button
    ms,              \* dwell time the slider is set to (my.slider.getms())
    waits,           \* the dwell times read for the delays of the latest arm cycle
    dstate,          \* detector: my.state ("rest" / "gaze")
    dstatus,         \* detector: my.status
    interval,        \* detector: my.interval (timer handle, 0 = null)
    intervals,       \* detector: live window.setInterval timers [id, rate]
    nextId,          \* detector: next timer handle window.setInterval returns
    size,            \* detector: width/height of the canvases video, rest, gaze
    template,        \* detector: what the rest / gaze template canvases hold
    failed,          \* detector: handles of the timers a tick of which threw
    lastTick,        \* detector: the most recent poll tick: its timer, whether the
                     \* canvases differed in size, what it threw and emitted, and
                     \* the event emitted last before it
    invocations,     \* modular buttons: log of the calls of that.action()
    registrations,   \* modular buttons: log of the calls of addFinishedListener
    bufferText,      \* guess menu: the text of the buffer (its last word)
    queries,         \* guess menu: log of the guess queries and what became of them
    guessValues      \* guess menu: the values the guess buttons display

scanVars == <<cycles, listeners, timers, startListeners, on, visible, buttonValue, ms, waits>>
detVars  == <<dstate, dstatus, interval, intervals, nextId, size, template, failed, lastTick>>
btnVars  == <<invocations, registrations>>
guessVars == <<bufferText, queries, guessValues>>
vars     == <<cycles, listeners, timers, startListeners, on, visible, buttonValue, ms, waits,
              dstate, dstatus, interval, intervals, nextId, size, template, failed, lastTick,
              invocations, registrations, bufferText, queries, guessValues>>

(***************************************************************************)
(* Bounds of the model.                                                    *)
(***************************************************************************)
MaxCycles == 9       \* arm cycles explored per behaviour

(***************************************************************************)
(* Part I.  Static menu configuration (setup, wedjat.js 25-70).  The DOM   *)
(* that lists the buttons of each menu is not part of the sources; the     *)
(* tree below keeps setup's shape: a branch root, a leaf child, a branch   *)
(* child with leaves of its own.                                           *)
(***************************************************************************)
LEAF_LOOPS == 2

Menus == {"main", "request", "compose", "compose1", "compose2"}

NoMenu == "none"

IsBranch(m) == m \in {"main", "compose"}

Parent(m) ==
    CASE m = "request"  -> "main"
      [] m = "compose"  -> "main"
      [] m = "compose1" -> "compose"
      [] m = "compose2" -> "compose"
      [] OTHER          -> NoMenu

Btn(type, target, slide, depth) ==
    [type |-> type, target |-> target, slide |-> slide, depth |-> depth]

Buttons(m) ==
    CASE m = "main"     -> << Btn("start", NoMenu, FALSE, 0),
                              Btn("menuSelector", "request", FALSE, 0),
                              Btn("menuSelector", "compose", TRUE, 0) >>
      [] m = "request"  -> << Btn("request", NoMenu, FALSE, 0),
                              Btn("email", NoMenu, FALSE, 0) >>
      [] m = "compose"  -> << Btn("menuSelector", "compose1", FALSE, 0),
                              Btn("letter", NoMenu, FALSE, 0),
                              Btn("return", NoMenu, FALSE, 1),
                              Btn("menuSelector", "compose2", FALSE, 0) >>
      [] m = "compose1" -> << Btn("letter", NoMenu, FALSE, 0) >>
      [] m = "compose2" -> << Btn("return", NoMenu, FALSE, 2),
                              Btn("notImplemented", NoMenu, FALSE, 0) >>

\* Buttons are indexed from 0 as in the code.
NButtons(m) == Len(Buttons(m))

Button(m, ix) == Buttons(m)[ix + 1]

ButtonIds == {b \in Menus \X (0..3) : b[2] < NButtons(b[1])}

StartButtons == {b \in ButtonIds : Button(b[1], b[2]).type = "start"}

\* The whole automaton state as one record, so that handlers compose.
St == [cycles |-> cycles, listeners |-> listeners, timers |-> timers,
       startListeners |-> startListeners, on |-> on, visible |-> visible,
       buttonValue |-> buttonValue, ms |-> ms, waits |-> waits]

Commit(s) ==
    /\ cycles' = s.cycles
    /\ listeners' = s.listeners
    /\ timers' = s.timers
    /\ startListeners' = s.startListeners
    /\ on' = s.on
    /\ visible' = s.visible
    /\ buttonValue' = s.buttonValue
    /\ ms' = s.ms
    /\ waits' = s.waits

Timer(kind, c) == [kind |-> kind, cyc |-> c]

\* The dwell times the slider can be set to, in slider steps.
SliderValues == {1, 2}

\* my.slider.getms() read for a delay of the arm cycle c: the value read is
\* logged while c is the latest arm cycle.
getms(s, c) ==
    IF s.waits.cyc = c THEN [s EXCEPT !.waits.read = Append(@, s.ms)] ELSE s

\* Mutant: my.nextButton does not wrap around at the last button.
nextButton_NoWrap(m, ix) == IF ix + 1 < NButtons(m) THEN ix + 1 ELSE ix

nextButton(m, ix) == (ix + 1) % NButtons(m)

isLastButton(m, buttonIx) == buttonIx = NButtons(m) - 1

\* Mutant: the last loop is taken to be the one after the last.
isLastLoop_OffByOne(loopIx) == loopIx = LEAF_LOOPS

isLastLoop(loopIx) == loopIx = LEAF_LOOPS - 1

nextLoop(m, buttonIx, loopIx) ==
    IF isLastButton(m, buttonIx) THEN loopIx + 1 ELSE loopIx

toggle(s, b) == [s EXCEPT !.on[b] = ~ s.on[b]]

\* The calls an arm cycle makes are logged, in order, in its steps.
Log(s, c, calls) == [s EXCEPT !.cycles[c].steps = @ \o calls]

slideUp(s, m) == [s EXCEPT !.visible[m] = FALSE]

slideDown(s, m) == [s EXCEPT !.visible[m] = TRUE]

\* Button.scan: highlight, announce, register onPress, start the deadline.
\* The new arm cycle is appended to the log; `by` records what armed it.
ButtonScan(s, m, ix, loop, by) ==
    LET c  == Len(s.cycles) + 1
        s1 == toggle(s, <<m, ix>>)
    IN  [s1 EXCEPT
           !.cycles = Append(s.cycles,
                             [menu |-> m, ix |-> ix, loop |-> loop, by |-> by,
                              pressed |-> 0, passed |-> 0, acted |-> 0, done |-> 0,
                              steps |-> <<"toggle", "announce", "addGazeListener",
                                          "setTimeout">>]),
           !.waits = [cyc |-> c, read |-> <<s.ms>>],
           !.listeners = s.listeners \cup {c},
           !.timers = s.timers \cup {Timer("dwell", c)}]

\* my.scanAt of branch and leaf menus: both arm button buttonIx; they differ
\* in the callbacks handed to Button.scan (CbPassed, CbPressed below).  A
\* branch menu's scanAt takes no loop index; 0 is logged for it.
scanAt(s, m, buttonIx, loopIx, by) ==
    ButtonScan(s, m, buttonIx, IF IsBranch(m) THEN 0 ELSE loopIx, by)

\* Mutant: Menu.scan resumes at the button and loop index the menu reached in
\* its latest earlier arm cycle.
MenuScan_Resume(s, m, by) ==
    LET past == {c \in 1..Len(s.cycles) : s.cycles[c].menu = m}
        last == CHOOSE c \in past : \A d \in past : d <= c
    IN  IF past = {} THEN scanAt(slideDown(s, m), m, 0, 0, by)
        ELSE scanAt(slideDown(s, m), m, s.cycles[last].ix, s.cycles[last].loop, by)

\* Mutant: Menu.scan does not slide the menu down.
MenuScan_NoSlideDown(s, m, by) == scanAt(s, m, 0, 0, by)

\* Menu.scan
MenuScan(s, m, by) == scanAt(slideDown(s, m), m, 0, 0, by)

\* Mutant: the cbpressed of a leaf menu does not slide the leaf menu up.
cbpressed_NoSlideUp(s, m, by) ==
    IF IsBranch(m) THEN MenuScan(s, m, by)
    ELSE MenuScan(s, Parent(m), by)

\* Mutant: the cbpressed of a leaf menu scans the leaf menu again.
cbpressed_LeafRescans(s, m, by) == MenuScan(s, m, by)

\* The closure cbpressed that my.scanAt of menu m builds: a branch menu scans
\* again from the top (that.scan), a leaf menu slides up and hands over to
\* its parent.
cbpressed(s, m, by) ==
    IF IsBranch(m) THEN MenuScan(s, m, by)
    ELSE MenuScan(slideUp(s, m), Parent(m), by)

\* A button's action signals completion of the arm cycle c: it calls cbpressed.
CbPressed(s, c, by) ==
    cbpressed(Log([s EXCEPT !.cycles[c].done = @ + 1], c, <<"cbpressed">>),
              s.cycles[c].menu, by)

\* cbpassed of the arm cycle c: a branch menu arms the next button forever;
\* a leaf menu arms the next button, or, on its last button in its last
\* loop, calls cbpressed.
CbPassed(s, c) ==
    LET m    == s.cycles[c].menu
        ix   == s.cycles[c].ix
        loop == s.cycles[c].loop
    IN  IF IsBranch(m)
        THEN scanAt(s, m, nextButton(m, ix), 0, "passed")
        ELSE IF isLastButton(m, ix) /\ isLastLoop(loop)
             THEN cbpressed(s, m, "passed")
             ELSE scanAt(s, m, nextButton(m, ix), nextLoop(m, ix, loop), "passed")

\* Mutant: onPress forgets removeGazeListener(onPress).
OnPress_KeepListener(s, c) ==
    Log([s EXCEPT !.timers = (s.timers \ {Timer("dwell", c)}) \cup {Timer("afterPress", c)},
                  !.cycles[c].pressed = @ + 1],
        c, <<"clearTimeout", "setTimeout">>)

\* Mutant: onPress forgets clearTimeout(timeout).
OnPress_KeepDeadline(s, c) ==
    Log([s EXCEPT !.listeners = s.listeners \ {c},
                  !.timers = s.timers \cup {Timer("afterPress", c)},
                  !.cycles[c].pressed = @ + 1],
        c, <<"removeGazeListener", "setTimeout">>)

\* onPress of the arm cycle c (wedjat.js 415-428): deregister the listener,
\* cancel the deadline, start the settle delay PRESS_WAIT.
OnPress(s, c) ==
    Log([s EXCEPT !.listeners = s.listeners \ {c},
                  !.timers = (s.timers \ {Timer("dwell", c)}) \cup {Timer("afterPress", c)},
                  !.cycles[c].pressed = @ + 1],
        c, <<"removeGazeListener", "clearTimeout", "setTimeout">>)

\* The detector's gaze event invokes every registered listener in turn.
RECURSIVE EmitGaze(_, _)
EmitGaze(s, ls) ==
    IF ls = {} THEN s
    ELSE LET c == CHOOSE x \in ls : \A y \in ls : x <= y
         IN  EmitGaze(OnPress(s, c), ls \ {c})

\* Mutant: onTimeout forgets removeGazeListener(onPress).
OnTimeout_KeepListener(s, c) ==
    LET b  == <<s.cycles[c].menu, s.cycles[c].ix>>
        s1 == toggle(s, b)
        s2 == [s1 EXCEPT !.cycles[c].passed = @ + 1]
    IN  CbPassed(Log(s2, c, <<"toggle", "cbpassed">>), c)

\* onTimeout of the arm cycle c (wedjat.js 429-434): unhighlight, deregister
\* the listener, signal "passed".
OnTimeout(s, c) ==
    LET b  == <<s.cycles[c].menu, s.cycles[c].ix>>
        s1 == toggle(s, b)
        s2 == [s1 EXCEPT !.listeners = s1.listeners \ {c},
                         !.cycles[c].passed = @ + 1]
    IN  CbPassed(Log(s2, c, <<"toggle", "removeGazeListener", "cbpassed">>), c)

\* util.read(text, cb, elem): the text is spoken and cb is called once the
\* utterance has ended.
utilRead(s, c, text) ==
    Log([s EXCEPT !.timers = s.timers \cup {Timer("read", c)}], c, <<text>>)

\* Mutant: on an error afterSend only logs it, and reads nothing.
afterSend_SilentError(s, c, error) ==
    IF error THEN Log(s, c, <<"error">>)
    ELSE utilRead(Log(s, c, <<"sent">>), c, "Message sent to")

\* afterSend(error, info) of an email button (wedjat.js 874-884); the call is
\* logged as "error" or "sent".
afterSend(s, c, error) ==
    IF error THEN utilRead(Log(s, c, <<"error">>), c, "An error ocurred.")
    ELSE utilRead(Log(s, c, <<"sent">>), c, "Message sent to")

\* Mutant: a return button always returns to the parent of its menu.
getReturnMenu_ParentOnly(m, depth) ==
    IF depth = 0 THEN m ELSE Parent(m)

\* my.getReturnMenu of a return button (wedjat.js 763-769).
RECURSIVE getReturnMenu(_, _)
getReturnMenu(m, depth) ==
    IF depth = 0 THEN m ELSE getReturnMenu(Parent(m), depth - 1)

\* Mutant: the stop action forgets addExtendedGazeListener(that.start).
Action_StopAddsNoListener(s, c) ==
    LET m  == s.cycles[c].menu
        b  == <<m, s.cycles[c].ix>>
        bt == Button(m, s.cycles[c].ix)
        s1 == Log([s EXCEPT !.cycles[c].acted = @ + 1], c, <<"action">>)
    IN  CASE bt.type = "menuSelector" ->
               MenuScan(IF bt.slide THEN slideUp(s1, m) ELSE s1, bt.target, "selector")
          [] bt.type = "start" ->
               toggle([s1 EXCEPT !.buttonValue = "Start"], b)
          [] bt.type = "letter" ->
               CbPressed(s1, c, "pressed")
          [] bt.type = "request" ->
               [s1 EXCEPT !.timers = s1.timers \cup {Timer("afterBeep", c)}]
          [] bt.type = "email" ->
               [s1 EXCEPT !.timers = s1.timers \cup {Timer("afterSend", c)}]
          [] bt.type = "notImplemented" ->
               [s1 EXCEPT !.timers = s1.timers \cup {Timer("afterRead", c)}]
          [] bt.type = "return" ->
               MenuScan(slideUp(s1, getReturnMenu(m, bt.depth - 1)),
                        getReturnMenu(m, bt.depth), "return")

\* that.action(cbpressed) of the button armed in cycle c, by button type.
\* buffer.write of the text buttons acts on the text buffer only, which the
\* scan automaton never reads.  An email button hands the message to
\* transporter.sendMail, which calls afterSend later; a button that is not
\* implemented says so, and its utterance calls afterRead when it has ended.
Action(s, c) ==
    LET m  == s.cycles[c].menu
        b  == <<m, s.cycles[c].ix>>
        bt == Button(m, s.cycles[c].ix)
        s1 == Log([s EXCEPT !.cycles[c].acted = @ + 1], c, <<"action">>)
    IN  CASE bt.type = "menuSelector" ->
               MenuScan(IF bt.slide THEN slideUp(s1, m) ELSE s1, bt.target, "selector")
          [] bt.type = "start" ->
               toggle([s1 EXCEPT !.startListeners = s1.startListeners \cup {b},
                                 !.buttonValue = "Start"], b)
          [] bt.type = "letter" ->
               CbPressed(s1, c, "pressed")
          [] bt.type = "request" ->
               [s1 EXCEPT !.timers = s1.timers \cup {Timer("afterBeep", c)}]
          [] bt.type = "email" ->
               [s1 EXCEPT !.timers = s1.timers \cup {Timer("afterSend", c)}]
          [] bt.type = "notImplemented" ->
               [s1 EXCEPT !.timers = s1.timers \cup {Timer("afterRead", c)}]
          [] bt.type = "return" ->
               MenuScan(slideUp(s1, getReturnMenu(m, bt.depth - 1)),
                        getReturnMenu(m, bt.depth), "return")

\* afterPress of the arm cycle c (wedjat.js 417-424): announce, then wait
\* my.slider.getms() before afterAnnouncement.
afterPress(s, c) ==
    Log(getms([s EXCEPT !.timers = s.timers \cup {Timer("afterAnnouncement", c)}], c),
        c, <<"announce", "setTimeout">>)

\* Mutant: afterAnnouncement runs the action before it unhighlights.
afterAnnouncement_ActFirst(s, c) ==
    LET s1 == Action(s, c)
    IN  Log(toggle(s1, <<s.cycles[c].menu, s.cycles[c].ix>>), c, <<"toggle">>)

\* afterAnnouncement of the arm cycle c (wedjat.js 419-422): unhighlight,
\* then run the action.
afterAnnouncement(s, c) ==
    Action(Log(toggle(s, <<s.cycles[c].menu, s.cycles[c].ix>>), c, <<"toggle">>), c)

\* Mutant: start scans its menu from the second button.
Start_FromSecond(s, b) ==
    LET s1 == [s EXCEPT !.startListeners = s.startListeners \ {b},
                        !.buttonValue = "Stop"]
    IN  toggle(scanAt(slideDown(s1, b[1]), b[1], 1, 0, "start"), b)

\* Mutant: start forgets removeExtendedGazeListener(that.start).
Start_KeepListener(s, b) ==
    toggle(MenuScan([s EXCEPT !.buttonValue = "Stop"], b[1], "start"), b)

\* startButton.start (wedjat.js 501-506)
Start(s, b) ==
    LET s1 == [s EXCEPT !.startListeners = s.startListeners \ {b},
                        !.buttonValue = "Stop"]
    IN  toggle(MenuScan(s1, b[1], "start"), b)

\* The detector's extended-gaze event invokes every registered start listener.
RECURSIVE EmitExtendedGaze(_, _)
EmitExtendedGaze(s, bs) ==
    IF bs = {} THEN s
    ELSE LET b == CHOOSE x \in bs : TRUE
         IN  EmitExtendedGaze(Start(s, b), bs \ {b})

Bounded(s) == Len(s.cycles) <= MaxCycles

Fire(s, t) == [s EXCEPT !.timers = s.timers \ {t}]

(***************************************************************************)
(* Actions of the scan automaton: one per event the event loop delivers.   *)
(***************************************************************************)
ScanInit ==
    /\ cycles = <<>>
    /\ listeners = {}
    /\ timers = {}
    /\ startListeners = StartButtons
    /\ on = [b \in ButtonIds |-> b \in StartButtons]
    /\ visible = [m \in Menus |-> m = "main"]
    /\ buttonValue = "Start"
    /\ ms = 1
    /\ waits = [cyc |-> 0, read |-> <<>>]

\* The user makes the extended (start) gesture.
StartGesture ==
    LET s2 == EmitExtendedGaze(St, startListeners)
    IN  Bounded(s2) /\ Commit(s2) /\ UNCHANGED <<detVars, btnVars, guessVars>>

\* The user makes the short (confirm) gesture.
ConfirmGesture ==
    LET s2 == EmitGaze(St, listeners)
    IN  Commit(s2) /\ UNCHANGED <<detVars, btnVars, guessVars>>

\* The dwell deadline of an arm cycle expires.
Timeout ==
    \E t \in timers :
        /\ t.kind = "dwell"
        /\ LET s2 == OnTimeout(Fire(St, t), t.cyc)
           IN  Bounded(s2) /\ Commit(s2)
        /\ UNCHANGED <<detVars, btnVars, guessVars>>

\* afterPress: the settle delay is over; announce, wait the dwell time again.
AfterPress ==
    \E t \in timers :
        /\ t.kind = "afterPress"
        /\ Commit(afterPress(Fire(St, t), t.cyc))
        /\ UNCHANGED <<detVars, btnVars, guessVars>>

\* afterAnnouncement: unhighlight and run the button's action.
AfterAnnouncement ==
    \E t \in timers :
        /\ t.kind = "afterAnnouncement"
        /\ LET s2 == afterAnnouncement(Fire(St, t), t.cyc)
           IN  Bounded(s2) /\ Commit(s2)
        /\ UNCHANGED <<detVars, btnVars, guessVars>>

\* requestButton.action: afterBeep speaks the message (wedjat.js 569-576).
AfterBeep ==
    \E t \in timers :
        /\ t.kind = "afterBeep"
        /\ Commit([St EXCEPT !.timers = (timers \ {t}) \cup
                                        {Timer("afterSpeech", t.cyc)}])
        /\ UNCHANGED <<detVars, btnVars, guessVars>>

\* utterance.onend = afterSpeech: wait the dwell time, then cbpressed.
AfterSpeech ==
    \E t \in timers :
        /\ t.kind = "afterSpeech"
        /\ Commit(getms([St EXCEPT !.timers = (timers \ {t}) \cup
                                              {Timer("cbpressed", t.cyc)}], t.cyc))
        /\ UNCHANGED <<detVars, btnVars, guessVars>>

\* utterance.onend = afterRead of a button that is not implemented
\* (wedjat.js 930-934): wait PAUSE, then cbpressed.
AfterRead ==
    \E t \in timers :
        /\ t.kind = "afterRead"
        /\ Commit([St EXCEPT !.timers = (timers \ {t}) \cup
                                        {Timer("cbpressed", t.cyc)}])
        /\ UNCHANGED <<detVars, btnVars, guessVars>>

\* setTimeout(cbpressed, ...) of a request button, or of a button that is
\* not implemented, fires.
RequestFinished ==
    \E t \in timers :
        /\ t.kind = "cbpressed"
        /\ LET s2 == CbPressed(Fire(St, t), t.cyc, "pressed")
           IN  Bounded(s2) /\ Commit(s2)
        /\ UNCHANGED <<detVars, btnVars, guessVars>>

\* transporter.sendMail calls afterSend, with or without an error.
AfterSend ==
    \E t \in timers, error \in BOOLEAN :
        /\ t.kind = "afterSend"
        /\ Commit(afterSend(Fire(St, t), t.cyc, error))
        /\ UNCHANGED <<detVars, btnVars, guessVars>>

\* The utterance of util.read has ended: its callback cbpressed is called.
ReadFinished ==
    \E t \in timers :
        /\ t.kind = "read"
        /\ LET s2 == CbPressed(Fire(St, t), t.cyc, "pressed")
           IN  Bounded(s2) /\ Commit(s2)
        /\ UNCHANGED <<detVars, btnVars, guessVars>>

\* The assistant moves the slider to another dwell time.
SliderChange ==
    /\ \E v \in SliderValues \ {ms} : Commit([St EXCEPT !.ms = v])
    /\ UNCHANGED <<detVars, btnVars, guessVars>>

(***************************************************************************)
(* The scan automaton over unbounded time.  The handlers read the log of   *)
(* arm cycles only at the arm cycles that still have a listener or a       *)
(* pending callback, so the log can be cut down to those and the latest    *)
(* two arm cycles without changing what any handler does.  The actions     *)
(* below are the handlers above, followed by that cut instead of the bound *)
(* on the length of the log.                                               *)
(***************************************************************************)
\* The arm cycles of s that a listener or a pending callback refers to.
LiveCycles(s) == s.listeners \cup {t.cyc : t \in s.timers}

Kept(s) ==
    LiveCycles(s) \cup ({Len(s.cycles) - 1, Len(s.cycles)} \cap (1..Len(s.cycles)))

\* The position of the arm cycle c among the kept ones.
Rank(s, c) == Cardinality({k \in Kept(s) : k <= c})

Compact(s) ==
    LET kept == Kept(s)
        old(i) == CHOOSE k \in kept : Rank(s, k) = i
    IN  [s EXCEPT
           !.cycles = [i \in 1..Cardinality(kept) |-> s.cycles[old(i)]],
           !.listeners = {Rank(s, c) : c \in s.listeners},
           !.timers = {Timer(t.kind, Rank(s, t.cyc)) : t \in s.timers},
           !.waits = IF s.waits.cyc \in kept
                     THEN [s.waits EXCEPT !.cyc = Rank(s, s.waits.cyc)]
                     ELSE [cyc |-> 0, read |-> <<>>]]

\* The state a handler leaves is cut down and becomes the next state.  (The
\* bound variables hold the handler's result, so that it is computed once.)
Deliver(result) ==
    \E s2 \in {result} : \E s3 \in {Compact(s2)} : Commit(s3)

LiveStartGesture ==
    /\ Deliver(EmitExtendedGaze(St, startListeners))
    /\ UNCHANGED <<detVars, btnVars, guessVars>>

LiveConfirmGesture ==
    /\ Deliver(EmitGaze(St, listeners))
    /\ UNCHANGED <<detVars, btnVars, guessVars>>

LiveTimeout ==
    \E t \in timers :
        /\ t.kind = "dwell"
        /\ Deliver(OnTimeout(Fire(St, t), t.cyc))
        /\ UNCHANGED <<detVars, btnVars, guessVars>>

LiveAfterPress ==
    \E t \in timers :
        /\ t.kind = "afterPress"
        /\ Deliver(afterPress(Fire(St, t), t.cyc))
        /\ UNCHANGED <<detVars, btnVars, guessVars>>

LiveAfterAnnouncement ==
    \E t \in timers :
        /\ t.kind = "afterAnnouncement"
        /\ Deliver(afterAnnouncement(Fire(St, t), t.cyc))
        /\ UNCHANGED <<detVars, btnVars, guessVars>>

LiveAfterBeep ==
    \E t \in timers :
        /\ t.kind = "afterBeep"
        /\ Deliver([St EXCEPT !.timers = (timers \ {t}) \cup
                                         {Timer("afterSpeech", t.cyc)}])
        /\ UNCHANGED <<detVars, btnVars, guessVars>>

LiveAfterSpeech ==
    \E t \in timers :
        /\ t.kind = "afterSpeech"
        /\ Deliver(getms([St EXCEPT !.timers = (timers \ {t}) \cup
                                               {Timer("cbpressed", t.cyc)}],
                          t.cyc))
        /\ UNCHANGED <<detVars, btnVars, guessVars>>

LiveAfterRead ==
    \E t \in timers :
        /\ t.kind = "afterRead"
        /\ Deliver([St EXCEPT !.timers = (timers \ {t}) \cup
                                         {Timer("cbpressed", t.cyc)}])
        /\ UNCHANGED <<detVars, btnVars, guessVars>>

LiveRequestFinished ==
    \E t \in timers :
        /\ t.kind = "cbpressed"
        /\ Deliver(CbPressed(Fire(St, t), t.cyc, "pressed"))
        /\ UNCHANGED <<detVars, btnVars, guessVars>>

LiveAfterSend ==
    \E t \in timers, error \in BOOLEAN :
        /\ t.kind = "afterSend"
        /\ Deliver(afterSend(Fire(St, t), t.cyc, error))
        /\ UNCHANGED <<detVars, btnVars, guessVars>>

LiveReadFinished ==
    \E t \in timers :
        /\ t.kind = "read"
        /\ Deliver(CbPressed(Fire(St, t), t.cyc, "pressed"))
        /\ UNCHANGED <<detVars, btnVars, guessVars>>

LiveSliderChange ==
    /\ \E v \in SliderValues \ {ms} : Commit([St EXCEPT !.ms = v])
    /\ UNCHANGED <<detVars, btnVars, guessVars>>

(***************************************************************************)
(* Part II.  The gaze detector (detector.js).                              *)
(*                                                                         *)
(* An image is what getImageData returns: width, height and the RGBA data, *)
(* indexed from 0.  The canvases are scaled down from 160 x 120 to at most *)
(* MaxSide pixels; what a canvas shows is one of a few scenes.             *)
(***************************************************************************)
MaxSide == 2         \* a canvas is 1 x 1, MaxSide x 1 or 1 x MaxSide pixels
MaxTimers == 2       \* window.setInterval calls explored per behaviour

REFRESH_RATE_LISTEN == 5
REFRESH_RATE_SCAN == 20

Canvases == {"video", "rest", "gaze"}

Dims == {<<1, 1>>, <<MaxSide, 1>>, <<1, MaxSide>>}

\* A cleared canvas is transparent black; the camera shows opaque scenes.
Blank == [base |-> 0, alpha |-> 0]

Opaque == {[base |-> b, alpha |-> 255] : b \in {0, 100, 200}}

\* getImageData of a canvas of dimensions d that shows scene sc.
ImageData(sc, d) ==
    [width |-> d[1], height |-> d[2],
     data |-> [k \in 0..(d[1] * d[2] * 4 - 1) |->
                 IF k % 4 = 3 THEN sc.alpha ELSE sc.base]]

Abs(x) == IF x < 0 THEN -x ELSE x

\* Mutant: only the widths are compared.
checkDimensions_WidthOnly(img1, img2) ==
    IF img1.width = img2.width
    THEN [threw |-> FALSE, width |-> img1.width, height |-> img1.height]
    ELSE [threw |-> TRUE, width |-> 0, height |-> 0]

\* checkDimensions: the common width and height, or the thrown Error.
checkDimensions(img1, img2) ==
    LET matchWidth  == img1.width = img2.width
        matchHeight == img1.height = img2.height
    IN  IF matchWidth /\ matchHeight
        THEN [threw |-> FALSE, width |-> img1.width, height |-> img1.height]
        ELSE [threw |-> TRUE, width |-> 0, height |-> 0]

\* A JavaScript number: nan marks NaN (a read past the end of the data is
\* undefined, and arithmetic on it gives NaN).
Num(v) == [nan |-> FALSE, v |-> v]

NaN == [nan |-> TRUE, v |-> 0]

AbsDiff(x1, x2, i) ==
    IF i \in DOMAIN x1 /\ i \in DOMAIN x2 THEN Num(Abs(x1[i] - x2[i])) ELSE NaN

Plus(a, b) == IF a.nan \/ b.nan THEN NaN ELSE Num(a.v + b.v)

\* a < b in JavaScript: false when either is NaN.
Less(a, b) == ~ a.nan /\ ~ b.nan /\ a.v < b.v

\* Mutant: the loop adds the alpha components too.
RECURSIVE SumFrom_CountsAlpha(_, _, _, _)
SumFrom_CountsAlpha(x1, x2, i, ixMax) ==
    IF i >= ixMax THEN Num(0)
    ELSE Plus(AbsDiff(x1, x2, i), SumFrom_CountsAlpha(x1, x2, i + 1, ixMax))

\* The loop of l1Distance, from index i on.
RECURSIVE SumFrom(_, _, _, _)
SumFrom(x1, x2, i, ixMax) ==
    IF i >= ixMax THEN Num(0)
    ELSE IF i % 4 = 3 THEN SumFrom(x1, x2, i + 1, ixMax)
         ELSE Plus(AbsDiff(x1, x2, i), SumFrom(x1, x2, i + 1, ixMax))

l1Distance(img1, img2) ==
    LET dims == checkDimensions(img1, img2)
    IN  IF dims.threw THEN [threw |-> TRUE, distance |-> NaN]
        ELSE [threw |-> FALSE,
              distance |-> SumFrom(img1.data, img2.data, 0, dims.width * dims.height * 4)]

\* Mutant: "gestureBegin" is emitted on every tick classified as gaze.
detect_EmitEveryGaze(state, streamPixels, restPixels, gazePixels) ==
    LET dRest == l1Distance(streamPixels, restPixels)
        dGaze == l1Distance(streamPixels, gazePixels)
        newState == IF Less(dGaze.distance, dRest.distance) THEN "gaze" ELSE "rest"
    IN  IF dRest.threw \/ dGaze.threw
        THEN [threw |-> TRUE, emitted |-> <<>>, state |-> state]
        ELSE [threw |-> FALSE,
              emitted |-> (IF newState = "gaze" THEN <<"gestureBegin">> ELSE <<>>) \o
                          (IF state = "gaze" /\ newState = "rest"
                           THEN <<"gestureEnd">> ELSE <<>>),
              state |-> newState]

\* Mutant: a frame as far from the gaze template as from the rest template
\* is classified as gaze.
detect_TieIsGaze(state, streamPixels, restPixels, gazePixels) ==
    LET dRest == l1Distance(streamPixels, restPixels)
        dGaze == l1Distance(streamPixels, gazePixels)
        newState == IF Less(dRest.distance, dGaze.distance) THEN "rest" ELSE "gaze"
    IN  IF dRest.threw \/ dGaze.threw
        THEN [threw |-> TRUE, emitted |-> <<>>, state |-> state]
        ELSE [threw |-> FALSE,
              emitted |-> (IF state = "rest" /\ newState = "gaze"
                           THEN <<"gestureBegin">> ELSE <<>>) \o
                          (IF state = "gaze" /\ newState = "rest"
                           THEN <<"gestureEnd">> ELSE <<>>),
              state |-> newState]

\* my.detect on the frame streamPixels: what it throws, emits and leaves in
\* my.state.  An exception of l1Distance leaves the handler at once.
detect(state, streamPixels, restPixels, gazePixels) ==
    LET dRest == l1Distance(streamPixels, restPixels)
        dGaze == l1Distance(streamPixels, gazePixels)
        newState == IF Less(dGaze.distance, dRest.distance) THEN "gaze" ELSE "rest"
    IN  IF dRest.threw \/ dGaze.threw
        THEN [threw |-> TRUE, emitted |-> <<>>, state |-> state]
        ELSE [threw |-> FALSE,
              emitted |-> (IF state = "rest" /\ newState = "gaze"
                           THEN <<"gestureBegin">> ELSE <<>>) \o
                          (IF state = "gaze" /\ newState = "rest"
                           THEN <<"gestureEnd">> ELSE <<>>),
              state |-> newState]

\* window.clearInterval(my.interval)
clearInterval(live, handle) == {t \in live : t.id # handle}

\* window.setInterval(my.detect, 1000 / rate), returning handle id
setInterval(live, id, rate) == live \cup {[id |-> id, period |-> 1000 \div rate]}

\* The event the detector emitted last, up to and including the most recent
\* poll tick ("none" before the first event).
LastEvent ==
    IF lastTick.emitted # <<>> THEN lastTick.emitted[Len(lastTick.emitted)]
    ELSE lastTick.prior

DetInit ==
    /\ dstate = "rest"
    /\ dstatus = "idle"
    /\ interval = 0
    /\ intervals = {}
    /\ nextId = 1
    /\ \E d \in Dims : size = [c \in Canvases |-> d]
    /\ template = [c \in {"rest", "gaze"} |-> Blank]
    /\ failed = {}
    /\ lastTick = [timer |-> 0, mismatch |-> FALSE, threw |-> FALSE,
                   before |-> "rest", emitted |-> <<>>, gazeVsRest |-> "none",
                   prior |-> "none"]

\* Mutant: idleMode only sets the status and leaves the poll timer running.
idleMode_KeepsTimer ==
    /\ dstatus' = "idle"
    /\ UNCHANGED <<dstate, interval, intervals, nextId, size, template, failed, lastTick>>
    /\ UNCHANGED <<scanVars, btnVars, guessVars>>

idleMode ==
    /\ dstatus' = "idle"
    /\ intervals' = clearInterval(intervals, interval)
    /\ UNCHANGED <<dstate, interval, nextId, size, template, failed, lastTick>>
    /\ UNCHANGED <<scanVars, btnVars, guessVars>>

\* Mutant: listenMode starts from the resting state.
listenMode_ResetsState ==
    /\ nextId <= MaxTimers
    /\ dstatus' = "listening"
    /\ dstate' = "rest"
    /\ intervals' = setInterval(clearInterval(intervals, interval), nextId,
                                REFRESH_RATE_LISTEN)
    /\ interval' = nextId
    /\ nextId' = nextId + 1
    /\ UNCHANGED <<size, template, failed, lastTick>>
    /\ UNCHANGED <<scanVars, btnVars, guessVars>>

listenMode ==
    /\ nextId <= MaxTimers
    /\ dstatus' = "listening"
    /\ intervals' = setInterval(clearInterval(intervals, interval), nextId,
                                REFRESH_RATE_LISTEN)
    /\ interval' = nextId
    /\ nextId' = nextId + 1
    /\ UNCHANGED <<dstate, size, template, failed, lastTick>>
    /\ UNCHANGED <<scanVars, btnVars, guessVars>>

\* Mutant: scanMode forgets window.clearInterval(my.interval).
scanMode_NoClear ==
    /\ nextId <= MaxTimers
    /\ dstatus' = "scanning"
    /\ intervals' = setInterval(intervals, nextId, REFRESH_RATE_SCAN)
    /\ interval' = nextId
    /\ nextId' = nextId + 1
    /\ UNCHANGED <<dstate, size, template, failed, lastTick>>
    /\ UNCHANGED <<scanVars, btnVars, guessVars>>

scanMode ==
    /\ nextId <= MaxTimers
    /\ dstatus' = "scanning"
    /\ intervals' = setInterval(clearInterval(intervals, interval), nextId,
                                REFRESH_RATE_SCAN)
    /\ interval' = nextId
    /\ nextId' = nextId + 1
    /\ UNCHANGED <<dstate, size, template, failed, lastTick>>
    /\ UNCHANGED <<scanVars, btnVars, guessVars>>

\* How the distance of the frame to the gaze template compares with its
\* distance to the rest template ("none" when a distance is not a number).
Compare(streamPixels, restPixels, gazePixels) ==
    LET dRest == l1Distance(streamPixels, restPixels)
        dGaze == l1Distance(streamPixels, gazePixels)
    IN  IF dRest.threw \/ dGaze.threw \/ dRest.distance.nan \/ dGaze.distance.nan
        THEN "none"
        ELSE IF dGaze.distance.v < dRest.distance.v THEN "less"
        ELSE IF dGaze.distance.v = dRest.distance.v THEN "equal"
        ELSE "greater"

\* Mutant: a tick classified as rest adopts the frame as the rest template.
Tick_AdaptsTemplate ==
    \E t \in intervals, frame \in Opaque :
        LET r == detect(dstate,
                        ImageData(frame, size["video"]),
                        ImageData(template["rest"], size["rest"]),
                        ImageData(template["gaze"], size["gaze"]))
        IN  /\ dstate' = r.state
            /\ failed' = IF r.threw THEN failed \cup {t.id} ELSE failed
            /\ lastTick' = [timer |-> t.id,
                            mismatch |-> (size["video"] # size["rest"] \/
                                          size["video"] # size["gaze"]),
                            threw |-> r.threw, before |-> dstate,
                            emitted |-> r.emitted,
                            prior |-> LastEvent,
                            gazeVsRest |->
                                Compare(ImageData(frame, size["video"]),
                                        ImageData(template["rest"], size["rest"]),
                                        ImageData(template["gaze"], size["gaze"]))]
            /\ template' = IF ~ r.threw /\ r.state = "rest"
                           THEN [template EXCEPT !["rest"] = frame] ELSE template
            /\ UNCHANGED <<dstatus, interval, intervals, nextId, size>>
            /\ UNCHANGED <<scanVars, btnVars, guessVars>>

\* A live poll timer ticks: my.detect runs on the current video frame.
Tick ==
    \E t \in intervals, frame \in Opaque :
        LET r == detect(dstate,
                        ImageData(frame, size["video"]),
                        ImageData(template["rest"], size["rest"]),
                        ImageData(template["gaze"], size["gaze"]))
        IN  /\ dstate' = r.state
            /\ failed' = IF r.threw THEN failed \cup {t.id} ELSE failed
            /\ lastTick' = [timer |-> t.id,
                            mismatch |-> (size["video"] # size["rest"] \/
                                          size["video"] # size["gaze"]),
                            threw |-> r.threw, before |-> dstate,
                            emitted |-> r.emitted,
                            prior |-> LastEvent,
                            gazeVsRest |->
                                Compare(ImageData(frame, size["video"]),
                                        ImageData(template["rest"], size["rest"]),
                                        ImageData(template["gaze"], size["gaze"]))]
            /\ UNCHANGED <<dstatus, interval, intervals, nextId, size, template>>
            /\ UNCHANGED <<scanVars, btnVars, guessVars>>

\* The capture button of template c is clicked: the current video frame is
\* drawn onto the template's canvas.
capture ==
    \E c \in {"rest", "gaze"}, frame \in Opaque :
        /\ template' = [template EXCEPT ![c] = frame]
        /\ UNCHANGED <<dstate, dstatus, interval, intervals, nextId, size, failed, lastTick>>
        /\ UNCHANGED <<scanVars, btnVars, guessVars>>

\* The host page gives a canvas element another width or height (which
\* clears it); getWidth and getHeight read the element on every call.
Resize ==
    \E c \in Canvases, d \in Dims :
        /\ size[c] # d
        /\ size' = [size EXCEPT ![c] = d]
        /\ template' = IF c = "video" THEN template ELSE [template EXCEPT ![c] = Blank]
        /\ UNCHANGED <<dstate, dstatus, interval, intervals, nextId, failed, lastTick>>
        /\ UNCHANGED <<scanVars, btnVars, guessVars>>

(***************************************************************************)
(* Part III.  The buttons of the modular implementation (menu-button.js    *)
(* 1-361): what one call of that.action() does until the button signals    *)
(* that it is finished.  Each call is logged with the callback of an       *)
(* external collaborator it waits for and the "buttonFinished" events it   *)
(* has emitted.                                                            *)
(***************************************************************************)
MaxActions == 3      \* calls of that.action() explored per behaviour
MaxListeners == 2    \* calls of addFinishedListener explored per behaviour

ButtonKinds == {"text", "bufferAction", "menuSelector", "callBell", "email",
                "notImplemented"}

\* my.finished: emit "buttonFinished".
finished(inv) == [inv EXCEPT !.emitted = @ + 1]

\* Hand a callback to an external collaborator, which calls it later.
Await(inv, callback) == [inv EXCEPT !.pending = callback]

\* that.action() of a button of the given kind; dropdown tells whether the
\* target of a menu selector is a dropdown menu.
buttonAction(kind, dropdown) ==
    LET inv == [kind |-> kind, pending |-> "none", emitted |-> 0,
                said |-> "", slidDown |-> FALSE]
    IN  CASE kind = "text"           -> finished(inv)
          [] kind = "bufferAction"   -> Await(inv, "executeAction")
          [] kind = "menuSelector"   ->
               finished(IF dropdown THEN [inv EXCEPT !.slidDown = TRUE] ELSE inv)
          [] kind = "callBell"       -> Await(inv, "setTimeout")
          [] kind = "email"          -> Await(inv, "sendMail")
          [] kind = "notImplemented" ->
               Await([inv EXCEPT !.said = "Not implemented."], "speakAsync")

\* Mutant: after a failed send the error is only logged.
emailAfterSend_ErrorSilent(inv, error) ==
    IF error THEN Await(inv, "none")
    ELSE Await([inv EXCEPT !.said = "Message sent to"], "speakAsync")

\* afterSend(error, info) of the email button (menu-button.js 308-320).
emailAfterSend(inv, error) ==
    IF error THEN Await([inv EXCEPT !.said = "An error ocurred."], "speakAsync")
    ELSE Await([inv EXCEPT !.said = "Message sent to"], "speakAsync")

\* The "buttonFinished" events the button of the given kind has emitted.
Emitted(invs, kind) ==
    Cardinality({e \in (1..Len(invs)) \X (1..2) :
                    invs[e[1]].kind = kind /\ e[2] <= invs[e[1]].emitted})

\* The kinds of button on which listeners are registered: one that finishes
\* inside its action, one that finishes in a callback.
ListenedKinds == {"text", "callBell"}

\* Mutant: the listener is registered with on instead of once.
emit_KeepsListener(regs, kind, count) ==
    [i \in 1..Len(regs) |->
        IF regs[i].kind = kind /\ regs[i].active
        THEN [regs[i] EXCEPT !.calls = @ + 1, !.firedAt = count]
        ELSE regs[i]]

\* my.emitter.emit("buttonFinished") of the button of the given kind, as the
\* listeners registered with once see it: each is removed and invoked.
\* count is the number of the event among those of the button.
emit(regs, kind, count) ==
    [i \in 1..Len(regs) |->
        IF regs[i].kind = kind /\ regs[i].active
        THEN [regs[i] EXCEPT !.active = FALSE, !.calls = @ + 1, !.firedAt = count]
        ELSE regs[i]]

\* The listeners after a step that took the log of invocations to invs: the
\* button of the given kind has emitted an event if its count has grown.
Listeners(invs, kind) ==
    IF Emitted(invs, kind) > Emitted(invocations, kind)
    THEN emit(registrations, kind, Emitted(invs, kind))
    ELSE registrations

ButtonInit == invocations = <<>> /\ registrations = <<>>

\* A button is pressed and its action runs.
Pressed ==
    /\ Len(invocations) < MaxActions
    /\ \E kind \in ButtonKinds, dropdown \in BOOLEAN :
           /\ (dropdown => kind = "menuSelector")
           /\ invocations' = Append(invocations, buttonAction(kind, dropdown))
           /\ registrations' =
                  Listeners(Append(invocations, buttonAction(kind, dropdown)), kind)
    /\ UNCHANGED <<scanVars, detVars, guessVars>>

\* that.addFinishedListener(listener) is called on a button.
AddFinishedListener ==
    /\ Len(registrations) < MaxListeners
    /\ \E kind \in ListenedKinds :
           registrations' =
               Append(registrations,
                      [kind |-> kind, at |-> Emitted(invocations, kind),
                       active |-> TRUE, calls |-> 0, firedAt |-> 0])
    /\ UNCHANGED invocations
    /\ UNCHANGED <<scanVars, detVars, guessVars>>

\* The buffer calls the callback handed to executeAction, the beep timer
\* fires, or the utterance of speakAsync ends: my.finished runs.
CallbackFinished ==
    \E i \in 1..Len(invocations) :
        /\ invocations[i].pending \in {"executeAction", "setTimeout", "speakAsync"}
        /\ invocations' = [invocations EXCEPT ![i] = finished(Await(@, "none"))]
        /\ registrations' =
               Listeners([invocations EXCEPT ![i] = finished(Await(@, "none"))],
                         invocations[i].kind)
        /\ UNCHANGED <<scanVars, detVars, guessVars>>

\* transporter.sendMail calls afterSend, with or without an error.
SendMailDone ==
    \E i \in 1..Len(invocations), error \in BOOLEAN :
        /\ invocations[i].pending = "sendMail"
        /\ invocations' = [invocations EXCEPT ![i] = emailAfterSend(@, error)]
        /\ registrations' =
               Listeners([invocations EXCEPT ![i] = emailAfterSend(@, error)],
                         invocations[i].kind)
        /\ UNCHANGED <<scanVars, detVars, guessVars>>

(***************************************************************************)
(* Part IV.  The guess menu (menu-button.js 552-612).  Every change of the *)
(* buffer calls my.update, which asks the word service for guesses for the *)
(* last word of the text; the answer of a query, or its failure, arrives   *)
(* later, in any order.  Only the last word of the buffer is modelled.     *)
(***************************************************************************)
MaxQueries == 3      \* buffer changes explored per behaviour

N_GUESSES == 8

\* The last words the buffer goes through.
Words == {"", "th", "the"}

\* util.repeat(val, n)
repeat(val, n) == [i \in 1..n |-> val]

\* util.pad(list, val, n): list filled up with val to length n.
pad(list, val, n) == [i \in 1..n |-> IF i <= Len(list) THEN list[i] ELSE val]

\* The search term my.guessWord sends for the last word text: a wildcard is
\* added, so that a completed word gets guesses too.
searchTerm(text) == text \o "*"

\* What the word service answers to a search term: the term itself first,
\* then the words it found.
searchResults(term) ==
    << [word |-> term], [word |-> term \o "m"], [word |-> term \o "n"] >>

\* success(data, status) of my.guessWord: the values handed to the callback.
success(data) ==
    LET guesses == [i \in 1..(Len(data) - 1) |-> data[i + 1].word]
    IN  pad(guesses, "", N_GUESSES)

\* callback(guesses) of my.update: button.setButtonValue for every button.
callback(guesses) == guesses

GuessInit ==
    /\ bufferText = ""
    /\ queries = <<>>
    /\ guessValues = repeat("", N_GUESSES)

\* The buffer changes and its change listener my.update runs: no text gives
\* no guesses at once, any other text sends a query.
BufferChange ==
    /\ Len(queries) < MaxQueries
    /\ \E w \in Words \ {bufferText} :
           /\ bufferText' = w
           /\ IF w = ""
              THEN /\ guessValues' = callback(repeat("", N_GUESSES))
                   /\ queries' = Append(queries, [text |-> w, state |-> "none"])
              ELSE /\ queries' = Append(queries, [text |-> w, state |-> "sent"])
                   /\ UNCHANGED guessValues
    /\ UNCHANGED <<scanVars, detVars, btnVars>>

\* The answer to a query arrives: jQuery.ajax calls success.
QuerySuccess ==
    \E i \in 1..Len(queries) :
        /\ queries[i].state = "sent"
        /\ guessValues' = callback(success(searchResults(searchTerm(queries[i].text))))
        /\ queries' = [queries EXCEPT ![i].state = "answered"]
        /\ UNCHANGED bufferText
        /\ UNCHANGED <<scanVars, detVars, btnVars>>

\* A query fails: jQuery.ajax calls failure, which updates nothing.
QueryFailure ==
    \E i \in 1..Len(queries) :
        /\ queries[i].state = "sent"
        /\ queries' = [queries EXCEPT ![i].state = "failed"]
        /\ UNCHANGED <<bufferText, guessValues>>
        /\ UNCHANGED <<scanVars, detVars, btnVars>>

Init == ScanInit /\ DetInit /\ ButtonInit /\ GuessInit

Next ==
    \/ StartGesture
    \/ ConfirmGesture
    \/ Timeout
    \/ AfterPress
    \/ AfterAnnouncement
    \/ AfterBeep
    \/ AfterSpeech
    \/ AfterRead
    \/ RequestFinished
    \/ AfterSend
    \/ ReadFinished
    \/ SliderChange

\* The scan automaton, with the detector left as constructed.
Spec == Init /\ [][Next]_vars

DetNext ==
    \/ idleMode
    \/ listenMode
    \/ scanMode
    \/ Tick
    \/ capture
    \/ Resize

\* The gaze detector, with the scan automaton left as constructed.
DetSpec == Init /\ [][DetNext]_vars

ButtonNext ==
    \/ Pressed
    \/ AddFinishedListener
    \/ CallbackFinished
    \/ SendMailDone

\* The buttons of the modular implementation on their own.
ButtonSpec == Init /\ [][ButtonNext]_vars

LiveNext ==
    \/ LiveStartGesture
    \/ LiveConfirmGesture
    \/ LiveTimeout
    \/ LiveAfterPress
    \/ LiveAfterAnnouncement
    \/ LiveAfterBeep
    \/ LiveAfterSpeech
    \/ LiveAfterRead
    \/ LiveRequestFinished
    \/ LiveAfterSend
    \/ LiveReadFinished
    \/ LiveSliderChange

\* A pending timer or callback of the scan automaton is delivered.
LiveCallback ==
    \/ LiveTimeout
    \/ LiveAfterPress
    \/ LiveAfterAnnouncement
    \/ LiveAfterBeep
    \/ LiveAfterSpeech
    \/ LiveAfterRead
    \/ LiveRequestFinished
    \/ LiveAfterSend
    \/ LiveReadFinished

\* A timer that is set fires, and speech synthesis and the mail transport
\* call the callbacks they were handed; gestures and slider moves are up to
\* the user.  (The scan automaton never has two callbacks pending, so being
\* fair to their disjunction is being fair to each.)
LiveFairness == WF_vars(LiveCallback)

\* The scan automaton over unbounded time, with timers that fire.
LiveSpec == Init /\ [][LiveNext]_vars /\ LiveFairness

GuessNext ==
    \/ BufferChange
    \/ QuerySuccess
    \/ QueryFailure

\* The guess menu on its own.
GuessSpec == Init /\ [][GuessNext]_vars

(***************************************************************************)
(* Properties of the scan automaton (checked under Spec).                  *)
(***************************************************************************)
Cycles == 1..Len(cycles)

DwellTimers == {t \in timers : t.kind = "dwell"}

\* An arm cycle is armed while its deadline is pending and its confirmation
\* listener is registered.
Armed(c) == c \in listeners /\ Timer("dwell", c) \in timers

ArmedControls == {<<cycles[c].menu, cycles[c].ix>> : c \in {x \in Cycles : Armed(x)}}

Resolved(c) == cycles[c].pressed + cycles[c].passed > 0

\* The arm cycle is in the settle delay or the wait after its announcement.
Settling(c) == Timer("afterPress", c) \in timers \/ Timer("afterAnnouncement", c) \in timers

\* The first arm cycle of the run of consecutive timeouts of one menu that
\* leads to the arm cycle c: the start of the menu's scan cycle.
RECURSIVE RunStart(_)
RunStart(c) ==
    IF c > 1 /\ cycles[c].by = "passed" /\ cycles[c - 1].menu = cycles[c].menu
    THEN RunStart(c - 1) ELSE c

\* C1: at most one control of the whole menu tree is armed, in every
\* reachable state.
C1_AtMostOneArmed == Cardinality(ArmedControls) <= 1

C1_Witness ==
    /\ Cardinality(ArmedControls) = 1
    /\ \E c \in Cycles : cycles[c].passed = 1
    /\ \E c \in Cycles : cycles[c].done = 1
    /\ \E c \in Cycles : cycles[c].by = "selector"
    /\ \E c \in Cycles : c > 1 /\ cycles[c].by = "start"

\* C2: every arm cycle resolves in exactly one way: it is unresolved exactly
\* while it is armed, it is never both confirmed and passed, its action runs
\* at most once and only on the confirmed path, never on the timeout path.
C2_OneOutcome ==
    \A c \in Cycles :
        /\ cycles[c].pressed + cycles[c].passed <= 1
        /\ Resolved(c) <=> ~ Armed(c)
        /\ cycles[c].acted <= cycles[c].pressed
        /\ cycles[c].passed > 0 => cycles[c].acted = 0

C2_Witness ==
    /\ \E c \in Cycles : cycles[c].acted = 1 /\ cycles[c].passed = 0
    /\ \E c \in Cycles : cycles[c].passed = 1 /\ cycles[c].acted = 0

\* C3: at most one confirmation listener is registered and at most one dwell
\* deadline is pending, both of the arm cycle armed last; a resolved arm
\* cycle has neither a registered listener nor a pending deadline.
C3_NoStaleListener ==
    /\ Cardinality(listeners) <= 1
    /\ Cardinality(DwellTimers) <= 1
    /\ \A c \in listeners : c = Len(cycles) /\ Timer("dwell", c) \in timers
    /\ \A t \in DwellTimers : t.cyc = Len(cycles) /\ t.cyc \in listeners
    /\ \A c \in Cycles : Resolved(c) => c \notin listeners /\ Timer("dwell", c) \notin timers

C3_Witness ==
    /\ Len(cycles) >= 3
    /\ listeners = {Len(cycles)}
    /\ \E c \in Cycles : cycles[c].passed = 1
    /\ \E c \in Cycles : cycles[c].pressed = 1 /\ cycles[c].acted = 1

C6_LeafYieldsAfterLN ==
    \A i \in Cycles :
        LET m == cycles[i].menu
            n == LEAF_LOOPS * NButtons(m)
        IN  (~ IsBranch(m) /\ cycles[i].by = "selector") =>
                \A k \in 1..n :
                    (i + k <= Len(cycles) /\ \A j \in 0..(k - 1) : cycles[i + j].passed = 1) =>
                        IF k < n
                        THEN cycles[i + k].menu = m
                        ELSE /\ cycles[i + k].menu = Parent(m)
                             /\ cycles[i + k].ix = 0
                             /\ Armed(i + k) \/ Resolved(i + k)

C6_Witness ==
    \E i \in Cycles :
        LET m == cycles[i].menu
            n == LEAF_LOOPS * NButtons(m)
        IN  /\ ~ IsBranch(m)
            /\ cycles[i].by = "selector"
            /\ i + n = Len(cycles)
            /\ \A j \in 0..(n - 1) : cycles[i + j].passed = 1 /\ cycles[i + j].menu = m
            /\ cycles[i + n].menu = Parent(m)
            /\ Armed(i + n)

\* C7: in a branch menu, the control confirmed at index k has its action
\* invoked exactly once (once the settle delay and the announcement are
\* over), and no control armed earlier in that scan cycle was confirmed or
\* had its action invoked.
C7_OnlyConfirmedActs ==
    \A c \in Cycles :
        (IsBranch(cycles[c].menu) /\ cycles[c].pressed >= 1) =>
            /\ cycles[c].pressed = 1
            /\ cycles[c].acted = IF Settling(c) THEN 0 ELSE 1
            /\ \A j \in RunStart(c)..(c - 1) :
                   /\ cycles[j].menu = cycles[c].menu
                   /\ cycles[j].acted = 0
                   /\ cycles[j].pressed = 0
                   /\ cycles[j].passed = 1

C7_Witness ==
    \E c \in Cycles :
        /\ IsBranch(cycles[c].menu)
        /\ cycles[c].ix = NButtons(cycles[c].menu) - 1
        /\ cycles[c].acted = 1
        /\ RunStart(c) = c - cycles[c].ix
        /\ cycles[c].ix > 0

\* The arm cycle c has made the call named call.
Has(c, call) == \E i \in 1..Len(cycles[c].steps) : cycles[c].steps[i] = call

\* The arm cycle that follows the completion of the action of the arm cycle
\* c: the scan of the same menu (branch) or of its parent (leaf) from the top.
ArmedByCompletion(c) ==
    /\ c < Len(cycles)
    /\ cycles[c + 1].by = "pressed"
    /\ cycles[c + 1].ix = 0
    /\ cycles[c + 1].menu = IF IsBranch(cycles[c].menu) THEN cycles[c].menu
                            ELSE Parent(cycles[c].menu)

\* C11: when the send callback of a confirmed email control receives an
\* error, the failure is announced and the completion callback is still
\* called: until then the announcement is pending, afterwards the scan has
\* advanced to the same arm cycle as after a successful send.
C11_FailedSendStillCompletes ==
    \A c \in Cycles :
        /\ Has(c, "error") =>
              /\ Has(c, "An error ocurred.")
              /\ \/ cycles[c].done = 0 /\ Timer("read", c) \in timers
                 \/ cycles[c].done = 1 /\ ArmedByCompletion(c)
        /\ Has(c, "sent") =>
              \/ cycles[c].done = 0 /\ Timer("read", c) \in timers
              \/ cycles[c].done = 1 /\ ArmedByCompletion(c)

C11_Witness ==
    \E c \in Cycles :
        /\ Button(cycles[c].menu, cycles[c].ix).type = "email"
        /\ Has(c, "error")
        /\ cycles[c].done = 1
        /\ c + 1 = Len(cycles)
        /\ Armed(c + 1)
        /\ cycles[c + 1].menu = "main"

\* The calls of an arm cycle on its confirmed path, from arming to the
\* invocation of the action (wedjat.js 414-441).
ConfirmedPath ==
    << "toggle", "announce", "addGazeListener", "setTimeout",
       "removeGazeListener", "clearTimeout", "setTimeout",
       "announce", "setTimeout",
       "toggle", "action" >>

\* C12: on the confirmed path of an arm cycle the listener is deregistered
\* and the deadline cancelled first, the settle delay and the wait after the
\* announcement then run with the control still highlighted and its action
\* not yet invoked, the control is unhighlighted next, its action is invoked
\* after that, and cbpressed is called only after the action was invoked.
C12_ConfirmedOrder ==
    \A c \in Cycles :
        cycles[c].pressed = 1 =>
            LET steps == cycles[c].steps
                n     == IF Len(steps) < Len(ConfirmedPath) THEN Len(steps)
                         ELSE Len(ConfirmedPath)
            IN  /\ n >= 7
                /\ SubSeq(steps, 1, n) = SubSeq(ConfirmedPath, 1, n)
                /\ \A i \in 1..Len(steps) :
                       steps[i] = "cbpressed" => i > Len(ConfirmedPath)
                /\ Settling(c) =>
                       /\ on[<<cycles[c].menu, cycles[c].ix>>]
                       /\ c \notin listeners
                       /\ Timer("dwell", c) \notin timers
                       /\ cycles[c].acted = 0
                       /\ n < 10
                /\ cycles[c].acted = 1 => ~ Settling(c) /\ n = Len(ConfirmedPath)
                /\ cycles[c].done <= cycles[c].acted

C12_Witness ==
    \E c \in Cycles :
        /\ cycles[c].pressed = 1
        /\ cycles[c].steps = ConfirmedPath \o <<"cbpressed">>
        /\ cycles[c].done = 1
        /\ ~ on[<<cycles[c].menu, cycles[c].ix>>]

\* A callback of the arm cycle c is still to come.
Pending(c) == \E t \in timers : t.cyc = c

\* The latest arm cycle was confirmed and the next control is not armed yet:
\* the settle delay, the wait after the announcement or the action runs.
BetweenControls ==
    /\ cycles # <<>>
    /\ cycles[Len(cycles)].pressed = 1
    /\ Pending(Len(cycles))

\* C13: a confirmation gesture delivered between the confirmation of a
\* control and the arming of the next control reaches no listener: it
\* changes nothing, so it invokes no action and leaves the pending callbacks,
\* which decide the control armed next, as they are.
C13_GestureIgnoredBetweenControls ==
    BetweenControls =>
        /\ listeners = {}
        /\ EmitGaze(St, listeners) = St

C13_Witness ==
    /\ BetweenControls
    /\ cycles[Len(cycles)].acted = 1
    /\ Timer("afterSpeech", Len(cycles)) \in timers
    /\ EmitGaze(St, listeners) = St

\* A menu is active (scanning) while one of its arm cycles has its listener
\* registered or a callback pending.
ActiveMenus ==
    {cycles[c].menu : c \in {x \in Cycles : x \in listeners \/ Pending(x)}}

\* The program is started: the start button shows "Stop".
Started == buttonValue = "Stop"

\* C14 as stated: exactly one menu is active in every reachable state.
C14_ExactlyOneActive == Cardinality(ActiveMenus) = 1

\* C14, amended: at most one menu is active in every reachable state, and
\* exactly one is active while the program is started; before the start
\* gesture and after the action of the stop button no menu is active.
C14_OneActiveWhileStarted ==
    /\ Cardinality(ActiveMenus) <= 1
    /\ Started <=> Cardinality(ActiveMenus) = 1

C14_Witness ==
    /\ ~ Started
    /\ ActiveMenus = {}
    /\ cycles # <<>>
    /\ Button(cycles[Len(cycles)].menu, cycles[Len(cycles)].ix).type = "start"
    /\ cycles[Len(cycles)].acted = 1
    /\ \E c \in Cycles : cycles[c].menu = "request" /\ cycles[c].done = 1

\* The arm cycle c was armed by Menu.scan: by the start gesture, by a
\* menu-opening or return button, by a completed action, or by a leaf menu
\* handing over to its parent after its last loop.
ByMenuScan(c) ==
    \/ cycles[c].by # "passed"
    \/ c > 1 /\ cycles[c - 1].menu # cycles[c].menu

\* C15: Menu.scan shows the menu and arms its button 0 with loop index 0,
\* whatever button index or loop index the menu had reached in an earlier
\* activation.
C15_ScanStartsAtZero ==
    \A c \in Cycles :
        ByMenuScan(c) =>
            /\ cycles[c].ix = 0
            /\ cycles[c].loop = 0
            /\ (c = Len(cycles) /\ Armed(c)) => visible[cycles[c].menu]

C15_Witness ==
    \E c1, c2 \in Cycles :
        /\ c1 < c2
        /\ cycles[c1].menu = "request"
        /\ cycles[c1].loop = 1
        /\ cycles[c2].menu = "request"
        /\ ByMenuScan(c2)
        /\ cycles[c2].ix = 0
        /\ cycles[c2].loop = 0
        /\ Armed(c2)
        /\ visible["request"]

\* C16: in a branch menu with N buttons every deadline expiry at index i
\* arms index (i + 1) % N of the same menu, so that without a confirmation
\* the buttons are armed in the cyclic order 0, 1, ..., N-1, 0, ... and the
\* menu neither goes idle nor hands over to another menu.
C16_BranchCyclesForever ==
    \A c \in Cycles :
        (IsBranch(cycles[c].menu) /\ cycles[c].passed = 1) =>
            /\ c < Len(cycles)
            /\ cycles[c + 1].by = "passed"
            /\ cycles[c + 1].menu = cycles[c].menu
            /\ cycles[c + 1].ix = (cycles[c].ix + 1) % NButtons(cycles[c].menu)
            /\ (c + 1 = Len(cycles) /\ ~ Resolved(c + 1)) => Armed(c + 1)

C16_Witness ==
    \E c \in Cycles :
        /\ c + 4 = Len(cycles)
        /\ \A j \in 0..4 : cycles[c + j].menu = "compose"
        /\ \A j \in 0..3 : cycles[c + j].passed = 1 /\ cycles[c + j].pressed = 0
        /\ <<cycles[c].ix, cycles[c + 1].ix, cycles[c + 2].ix,
             cycles[c + 3].ix, cycles[c + 4].ix>> = <<0, 1, 2, 3, 0>>
        /\ Armed(c + 4)

\* The button of the arm cycle c has a plain action: it neither opens a menu
\* nor returns to an ancestor menu nor stops the program.
Plain(c) ==
    Button(cycles[c].menu, cycles[c].ix).type \in
        {"letter", "request", "email", "notImplemented"}

\* C17 as stated: after the plain action of button k completes, the same
\* menu is re-armed at index (k + 1) % N.
C17_RearmsNextIndex ==
    \A c \in Cycles :
        (Plain(c) /\ cycles[c].done = 1) =>
            /\ c < Len(cycles)
            /\ cycles[c + 1].menu = cycles[c].menu
            /\ cycles[c + 1].ix = (cycles[c].ix + 1) % NButtons(cycles[c].menu)

\* C17, amended: after the plain action of a confirmed button completes the
\* scan restarts from the top: a branch menu is armed again at index 0, a
\* leaf menu hands over to its parent, which is armed at index 0.
C17_RestartsFromTop ==
    \A c \in Cycles :
        (Plain(c) /\ cycles[c].done = 1) => ArmedByCompletion(c)

C17_Witness ==
    \E c \in Cycles :
        /\ Plain(c)
        /\ IsBranch(cycles[c].menu)
        /\ cycles[c].ix = 1
        /\ cycles[c].done = 1
        /\ c + 1 = Len(cycles)
        /\ cycles[c + 1].menu = cycles[c].menu
        /\ cycles[c + 1].ix = 0
        /\ Armed(c + 1)

\* No arm cycle of menu m has a registered listener or a pending deadline or
\* callback: the menu has no armed control.
Suspended(m) ==
    \A d \in Cycles :
        cycles[d].menu = m => d \notin listeners /\ ~ Pending(d) /\ ~ Armed(d)

\* C18: the action of a confirmed menu-opening button starts the scan of the
\* target menu at button 0, and as long as no button of the opening menu has
\* been armed again the opening menu is suspended: none of its arm cycles has
\* a registered listener or a pending deadline.
C18_OpenerSuspended ==
    \A c \in Cycles :
        LET m  == cycles[c].menu
            bt == Button(m, cycles[c].ix)
        IN  (bt.type = "menuSelector" /\ cycles[c].acted = 1) =>
                /\ c < Len(cycles)
                /\ cycles[c + 1].by = "selector"
                /\ cycles[c + 1].menu = bt.target
                /\ cycles[c + 1].ix = 0
                /\ cycles[c + 1].loop = 0
                /\ (\A j \in (c + 1)..Len(cycles) : cycles[j].menu # m) => Suspended(m)

C18_Witness ==
    \E c \in Cycles :
        /\ cycles[c].menu = "main"
        /\ Button("main", cycles[c].ix).type = "menuSelector"
        /\ cycles[c].acted = 1
        /\ c + 2 <= Len(cycles)
        /\ \A j \in (c + 1)..Len(cycles) : cycles[j].menu # "main"
        /\ cycles[Len(cycles)].menu = "compose1"
        /\ Armed(Len(cycles))
        /\ Suspended("main")
        /\ Suspended("compose")

\* The leaf menu of the arm cycle c yields at the end of that cycle: its
\* action has completed, or its deadline expired on the last button in the
\* last loop.
Yields(c) ==
    /\ ~ IsBranch(cycles[c].menu)
    /\ \/ cycles[c].done = 1
       \/ /\ cycles[c].passed = 1
          /\ isLastButton(cycles[c].menu, cycles[c].ix)
          /\ isLastLoop(cycles[c].loop)

\* The button indices menu m had armed before the arm cycle c.
EarlierIx(m, c) == {cycles[j].ix : j \in {x \in 1..(c - 1) : cycles[x].menu = m}}

\* C19: when a leaf menu yields, the next arm cycle belongs to its parent
\* and arms button 0 or a button the parent had armed before; while that
\* arm cycle is the latest one and has not acted, the parent is the only
\* active menu, and the leaf menu has no armed control and is slid up.
C19_LeafYieldsToParent ==
    \A c \in Cycles :
        Yields(c) =>
            LET m == cycles[c].menu
            IN  /\ c < Len(cycles)
                /\ cycles[c + 1].menu = Parent(m)
                /\ cycles[c + 1].ix \in {0} \cup EarlierIx(Parent(m), c)
                /\ (c + 1 = Len(cycles) /\ cycles[c + 1].acted = 0) =>
                       /\ ActiveMenus = {Parent(m)}
                       /\ Suspended(m)
                       /\ ~ visible[m]
                       /\ visible[Parent(m)]

C19_Witness ==
    \E c1, c2 \in Cycles :
        /\ Yields(c1) /\ cycles[c1].done = 1
        /\ Yields(c2) /\ cycles[c2].passed = 1
        /\ c2 + 1 = Len(cycles)
        /\ Armed(c2 + 1)
        /\ cycles[c2 + 1].ix = 0
        /\ ~ visible[cycles[c2].menu]

C21_IdleUntilStart ==
    /\ cycles = <<>> =>
           /\ listeners = {}
           /\ timers = {}
           /\ ArmedControls = {}
           /\ ~ Started
           /\ EmitGaze(St, listeners) = St
           /\ startListeners = StartButtons
           /\ LET s2 == EmitExtendedGaze(St, startListeners)
              IN  /\ Len(s2.cycles) = 1
                  /\ s2.cycles[1].menu = "main"
                  /\ s2.cycles[1].ix = 0
    /\ cycles # <<>> =>
           /\ cycles[1].by = "start"
           /\ cycles[1].menu = "main"
           /\ cycles[1].ix = 0
           /\ cycles[1].loop = 0

C21_Witness ==
    /\ Len(cycles) = 1
    /\ cycles[1].by = "start"
    /\ cycles[1].menu = "main"
    /\ cycles[1].ix = 0
    /\ Armed(1)
    /\ Started

\* C22: every delay of an arm cycle that is taken from the slider equals
\* the dwell time read when the button was armed: moving the slider while
\* a control is armed or its confirmation is processed changes no delay of
\* that arm cycle.
C22_DelaysFromArmTime ==
    \A i \in 1..Len(waits.read) : waits.read[i] = waits.read[1]

C29_StopThenRestart ==
    \A c \in Cycles :
        (Button(cycles[c].menu, cycles[c].ix).type = "start" /\ cycles[c].acted = 1) =>
            /\ c = Len(cycles) =>
                   /\ ArmedControls = {}
                   /\ timers = {}
                   /\ listeners = {}
                   /\ startListeners = {<<cycles[c].menu, cycles[c].ix>>}
                   /\ ~ Started
                   /\ LET s2 == EmitExtendedGaze(St, startListeners)
                      IN  /\ Len(s2.cycles) = c + 1
                          /\ s2.cycles[c + 1].menu = cycles[c].menu
                          /\ s2.cycles[c + 1].ix = 0
                          /\ s2.listeners = {c + 1}
                          /\ s2.startListeners = {}
            /\ c < Len(cycles) =>
                   /\ cycles[c + 1].by = "start"
                   /\ cycles[c + 1].menu = cycles[c].menu
                   /\ cycles[c + 1].ix = 0

\* The program was stopped and started again.
C29_Witness ==
    \E c \in Cycles :
        /\ Button(cycles[c].menu, cycles[c].ix).type = "start"
        /\ cycles[c].acted = 1
        /\ c + 1 = Len(cycles)
        /\ cycles[c + 1].by = "start"
        /\ cycles[c + 1].ix = 0
        /\ Armed(c + 1)
        /\ Started
        /\ startListeners = {}

\* The ancestor d levels above the menu m, written out for the depths of the
\* modelled tree.
Up(m, d) ==
    IF d = 0 THEN m ELSE IF d = 1 THEN Parent(m) ELSE Parent(Parent(m))

\* The arm cycle c confirmed a return button and its action has run.
Returned(c) ==
    /\ Button(cycles[c].menu, cycles[c].ix).type = "return"
    /\ cycles[c].acted = 1

\* C30: the action of a confirmed return button of depth d >= 1 starts the
\* scan of the ancestor d levels above the button's menu at button 0; while
\* that arm cycle is the latest one and has not acted, the ancestor d - 1
\* levels above is slid up, the ancestor d levels above is the only active
\* menu, and no button of the button's own menu is armed.
C30_ReturnScansAncestor ==
    \A c \in Cycles :
        Returned(c) =>
            LET m == cycles[c].menu
                d == Button(m, cycles[c].ix).depth
            IN  /\ d >= 1
                /\ cycles[c].pressed = 1
                /\ c < Len(cycles)
                /\ cycles[c + 1].by = "return"
                /\ cycles[c + 1].menu = Up(m, d)
                /\ cycles[c + 1].ix = 0
                /\ cycles[c + 1].loop = 0
                /\ (c + 1 = Len(cycles) /\ cycles[c + 1].acted = 0) =>
                       /\ ~ visible[Up(m, d - 1)]
                       /\ ActiveMenus = {Up(m, d)}
                       /\ Suspended(m)
                       /\ \A b \in ArmedControls : b[1] # m

C30_Witness ==
    \E c \in Cycles :
        /\ Returned(c)
        /\ Button(cycles[c].menu, cycles[c].ix).depth = 2
        /\ c + 1 = Len(cycles)
        /\ Armed(c + 1)
        /\ cycles[c + 1].menu = "main" /\ cycles[c + 1].ix = 0
        /\ ~ visible["compose"]
        /\ ArmedControls = {<<"main", 0>>}

BranchMenus == {m \in Menus : IsBranch(m)}

\* From some point on no confirmation gesture reaches a listener.
NoMoreConfirmations == <>[][~ LiveConfirmGesture]_vars

\* C31 as stated (checked under LiveSpec): once the program has been started,
\* if from some point on no confirmation gesture arrives, the active menu is
\* eventually one branch menu for ever.
C31_EndsInBranch ==
    (<>Started /\ NoMoreConfirmations) =>
        \E m \in BranchMenus : <>[](ActiveMenus = {m})

\* C31, amended (checked under LiveSpec): once the program has been started,
\* if from some point on no confirmation gesture arrives, then eventually
\* either one branch menu is the active menu for ever, or the action of the
\* stop button, confirmed before that point, has stopped the scan and no
\* menu is active for ever; no leaf menu stays active.
C31_EndsInBranchOrStopped ==
    (<>Started /\ NoMoreConfirmations) =>
        \/ \E m \in BranchMenus : <>[](ActiveMenus = {m})
        \/ <>[](~ Started /\ ActiveMenus = {})

\* An unattended leaf menu has just handed over to its parent.
C31_Witness ==
    /\ Len(cycles) >= 2
    /\ LET c == Len(cycles) - 1
       IN  /\ Yields(c)
           /\ cycles[c].passed = 1 /\ cycles[c].pressed = 0
           /\ cycles[c + 1].menu = Parent(cycles[c].menu)
           /\ Armed(c + 1)
           /\ ActiveMenus = {Parent(cycles[c].menu)}

\* The stop control (the start button while it shows "Stop") has been
\* confirmed and its action has not run yet.
StopConfirmed ==
    \E c \in Cycles :
        /\ Button(cycles[c].menu, cycles[c].ix).type = "start"
        /\ cycles[c].pressed = 1
        /\ cycles[c].acted = 0

\* A control other than the stop control has been confirmed and the scan has
\* not been handed on yet.
OtherConfirmed ==
    \E c \in Cycles :
        /\ Button(cycles[c].menu, cycles[c].ix).type # "start"
        /\ cycles[c].pressed = 1
        /\ Pending(c)

IsStartStop(c) == Button(cycles[c].menu, cycles[c].ix).type = "start"

\* How often the arm cycle c has called toggle.
Toggles(c) ==
    Cardinality({i \in 1..Len(cycles[c].steps) : cycles[c].steps[i] = "toggle"})

\* The arm cycle c has neither timed out nor reached its action.
InProgress(c) == cycles[c].passed = 0 /\ cycles[c].acted = 0

Highlighted == {b \in ButtonIds \ StartButtons : on[b]}

\* C35: an arm cycle of a button other than the start/stop button has called
\* toggle once while it is in progress and twice once it has timed out or
\* reached its action, the second call being the timeout's first call or the
\* call just before the action; such a button is highlighted exactly while
\* an arm cycle of it is in progress, and at most one is highlighted.
C35_HighlightFollowsArmCycle ==
    /\ \A c \in Cycles :
           ~ IsStartStop(c) =>
               /\ Toggles(c) = IF InProgress(c) THEN 1 ELSE 2
               /\ cycles[c].steps[1] = "toggle"
               /\ cycles[c].passed = 1 => cycles[c].steps[5] = "toggle"
               /\ cycles[c].acted = 1 =>
                      \E i \in 1..(Len(cycles[c].steps) - 1) :
                          /\ cycles[c].steps[i] = "toggle"
                          /\ cycles[c].steps[i + 1] = "action"
    /\ \A b \in ButtonIds \ StartButtons :
           on[b] <=> \E c \in Cycles :
                         <<cycles[c].menu, cycles[c].ix>> = b /\ InProgress(c)
    /\ Cardinality(Highlighted) <= 1

\* One button was unhighlighted by its timeout, another just before its
\* action, and the button armed now is the only one highlighted.
C35_Witness ==
    /\ \E c \in Cycles : ~ IsStartStop(c) /\ cycles[c].passed = 1 /\ Toggles(c) = 2
    /\ \E c \in Cycles : ~ IsStartStop(c) /\ cycles[c].acted = 1 /\ Toggles(c) = 2
    /\ \E c \in Cycles : ~ IsStartStop(c) /\ Armed(c)
                         /\ Highlighted = {<<cycles[c].menu, cycles[c].ix>>}

\* The menus that the hand-off out of the arm cycle c slides up: the leaf
\* menu that yields, the menu of a menu selector that slides, the ancestor a
\* return button names.
HiddenBy(c) ==
    LET m  == cycles[c].menu
        bt == Button(m, cycles[c].ix)
    IN  IF Yields(c) THEN {m}
        ELSE IF cycles[c].acted = 1 /\ bt.type = "menuSelector" /\ bt.slide THEN {m}
        ELSE IF cycles[c].acted = 1 /\ bt.type = "return" THEN {Up(m, bt.depth - 1)}
        ELSE {}

\* C36: the menu of every armed button is slid down; the menus a hand-off
\* slides up differ from the menu whose scan it starts, and stay slid up
\* while the button it armed is armed.
C36_ArmedMenuVisible ==
    /\ \A c \in Cycles : Armed(c) => visible[cycles[c].menu]
    /\ \A c \in Cycles :
           c < Len(cycles) =>
               /\ cycles[c + 1].menu \notin HiddenBy(c)
               /\ (c + 1 = Len(cycles) /\ Armed(c + 1)) =>
                      \A h \in HiddenBy(c) : ~ visible[h]

\* Each kind of hand-off that hides a menu has happened: a menu selector
\* that slides, a leaf menu that yields, a return button; the root menu is
\* armed again.
C36_Witness ==
    /\ \E c \in Cycles : HiddenBy(c) # {} /\ Yields(c)
    /\ \E c \in Cycles : HiddenBy(c) # {} /\ cycles[c].menu = "main"
    /\ LET c == Len(cycles) - 1
       IN  /\ c >= 1
           /\ Button(cycles[c].menu, cycles[c].ix).type = "return"
           /\ HiddenBy(c) = {"compose"}
           /\ Armed(c + 1)
           /\ visible["main"] /\ ~ visible["compose"]

\* The arm cycles c and c + 1 are consecutive arm cycles of one scan of a
\* leaf menu: the deadline of c expired and the leaf armed its next button.
LeafStep(c) ==
    /\ c < Len(cycles)
    /\ ~ IsBranch(cycles[c].menu)
    /\ cycles[c].passed = 1
    /\ cycles[c + 1].menu = cycles[c].menu
    /\ cycles[c + 1].by = "passed"

\* C37: every arm cycle of a leaf menu with N buttons has a button index in
\* 0..N-1 and a loop index in 0..LEAF_LOOPS-1; from one arm cycle of a scan
\* to the next the loop index grows by one if the deadline that expired was
\* the last button's and is unchanged otherwise, and a scan starts with loop
\* index 0.
C37_LeafIndicesInRange ==
    \A c \in Cycles :
        LET m == cycles[c].menu
        IN  ~ IsBranch(m) =>
                /\ NButtons(m) >= 1
                /\ 0 <= cycles[c].ix /\ cycles[c].ix < NButtons(m)
                /\ 0 <= cycles[c].loop /\ cycles[c].loop < LEAF_LOOPS
                /\ ~ (c > 1 /\ LeafStep(c - 1)) => cycles[c].loop = 0
                /\ LeafStep(c) =>
                       cycles[c + 1].loop =
                           IF cycles[c].ix = NButtons(m) - 1
                           THEN cycles[c].loop + 1 ELSE cycles[c].loop
                /\ (cycles[c].passed = 1 /\ ~ LeafStep(c) /\ c < Len(cycles)) =>
                       /\ cycles[c].ix = NButtons(m) - 1
                       /\ cycles[c].loop = LEAF_LOOPS - 1

\* A leaf menu of two buttons has gone through both loops: the loop index
\* stayed 0 after button 0, became 1 after button 1, and the deadline of the
\* last button in the last loop has expired.
C37_Witness ==
    \E c \in Cycles :
        /\ c + 3 <= Len(cycles)
        /\ LeafStep(c) /\ LeafStep(c + 1) /\ LeafStep(c + 2)
        /\ NButtons(cycles[c].menu) = 2
        /\ <<cycles[c].loop, cycles[c + 1].loop, cycles[c + 2].loop,
             cycles[c + 3].loop>> = <<0, 0, 1, 1>>
        /\ cycles[c + 3].passed = 1

(***************************************************************************)
(* Properties of the gaze detector (checked under DetSpec).                *)
(***************************************************************************)
Ticked == lastTick.timer # 0

\* C5: a poll tick emits exactly one "gestureBegin" when it takes the state
\* from rest to gaze, exactly one "gestureEnd" when it takes it from gaze to
\* rest, and nothing when the state stays what it was.
C5_OneEventPerTransition ==
    (Ticked /\ ~ lastTick.threw) =>
        lastTick.emitted =
            IF lastTick.before = "rest" /\ dstate = "gaze" THEN <<"gestureBegin">>
            ELSE IF lastTick.before = "gaze" /\ dstate = "rest" THEN <<"gestureEnd">>
            ELSE <<>>

C5_Witness ==
    /\ Ticked
    /\ lastTick.before = "gaze"
    /\ dstate = "rest"
    /\ lastTick.emitted = <<"gestureEnd">>

\* C8: after any sequence of idleMode, listenMode and scanMode calls at most
\* one poll timer is live, and it is the one my.interval names.
C8_AtMostOneTimer ==
    /\ Cardinality(intervals) <= 1
    /\ \A t \in intervals : t.id = interval

\* Two timers have been started, the second has ticked, and idleMode has
\* been called since.
C8_Witness ==
    /\ dstatus = "idle"
    /\ nextId = 3
    /\ lastTick.timer = 2
    /\ intervals = {}

\* C9: a poll tick at which the frame and a template differ in width or in
\* height throws: it emits no event and leaves the gaze state as it was.
C9_MismatchThrows ==
    (Ticked /\ lastTick.mismatch) =>
        /\ lastTick.threw
        /\ lastTick.emitted = <<>>
        /\ dstate = lastTick.before

C9_Witness ==
    /\ Ticked
    /\ lastTick.mismatch
    /\ lastTick.threw
    /\ lastTick.before = "gaze"
    /\ dstate = "gaze"

\* C10: once a poll tick of a timer has failed with a dimension mismatch, no
\* later tick of that timer runs a classification or emits an event.
C10_AbortedAfterMismatch ==
    (Ticked /\ lastTick.timer \in failed) =>
        /\ lastTick.threw
        /\ lastTick.emitted = <<>>

\* C23: a poll tick leaves the state gaze only if the frame is strictly
\* closer to the gaze template than to the rest template; a frame equally
\* far from both is classified as rest, so it emits no "gestureBegin" and
\* ends a gaze that was in progress with one "gestureEnd".
C23_TieFavoursRest ==
    (Ticked /\ ~ lastTick.threw) =>
        /\ dstate = "gaze" <=> lastTick.gazeVsRest = "less"
        /\ lastTick.gazeVsRest = "equal" =>
               /\ dstate = "rest"
               /\ lastTick.emitted =
                      IF lastTick.before = "gaze" THEN <<"gestureEnd">> ELSE <<>>

C23_Witness ==
    /\ Ticked
    /\ ~ lastTick.threw
    /\ lastTick.gazeVsRest = "equal"
    /\ template["rest"] # template["gaze"]
    /\ lastTick.before = "gaze"
    /\ dstate = "rest"
    /\ lastTick.emitted = <<"gestureEnd">>

\* The sum, over the pixels of two images of equal dimensions, of the
\* absolute differences of the three colour components of a pixel.
RECURSIVE ColourSum(_, _, _)
ColourSum(img1, img2, p) ==
    IF p < 0 THEN 0
    ELSE Abs(img1.data[4 * p] - img2.data[4 * p])
         + Abs(img1.data[4 * p + 1] - img2.data[4 * p + 1])
         + Abs(img1.data[4 * p + 2] - img2.data[4 * p + 2])
         + ColourSum(img1, img2, p - 1)

\* The images the canvases hold in the current state, with any scene.
ImagesNow(c) == {ImageData(sc, size[c]) : sc \in Opaque \cup {Blank}}

\* C24: for two images of equal width and height l1Distance returns the sum
\* over all pixels of the absolute differences of the three colour
\* components; the alpha components do not count, so two images that differ
\* only in alpha are at distance 0.
C24_L1SkipsAlpha ==
    \A img1 \in ImagesNow("video"), img2 \in ImagesNow("rest") :
        (img1.width = img2.width /\ img1.height = img2.height) =>
            LET d == l1Distance(img1, img2)
            IN  /\ ~ d.threw
                /\ d.distance = Num(ColourSum(img1, img2, img1.width * img1.height - 1))
                /\ (\A k \in DOMAIN img1.data : k % 4 # 3 => img1.data[k] = img2.data[k])
                       => d.distance = Num(0)

C24_Witness ==
    /\ Ticked
    /\ ~ lastTick.threw
    /\ size["video"] = <<MaxSide, 1>>
    /\ template["rest"] = Blank
    /\ template["gaze"] = [base |-> 200, alpha |-> 255]
    /\ lastTick.gazeVsRest = "greater"
    /\ l1Distance(ImageData([base |-> 0, alpha |-> 255], size["video"]),
                  ImageData(template["rest"], size["rest"])).distance = Num(0)
    /\ l1Distance(ImageData([base |-> 0, alpha |-> 255], size["video"]),
                  ImageData(template["gaze"], size["gaze"])).distance
           = Num(200 * 3 * MaxSide)

\* C25: a step changes what the rest or the gaze template holds only if it
\* is a click on a capture button (or the host page resizing the template's
\* canvas, which clears it): poll ticks and mode switches, with the events
\* they emit, leave both templates as they are.
C25_TemplatesChangeOnCapture ==
    [][ (template' # template) =>
            /\ capture \/ Resize
            /\ UNCHANGED <<dstate, dstatus, interval, intervals, nextId, failed, lastTick>>
      ]_vars

\* Both templates were captured, a tick then emitted "gestureBegin" and the
\* detector was sent to idle mode: the templates are still the captured ones.
C25_Witness ==
    /\ template["rest"] = [base |-> 0, alpha |-> 255]
    /\ template["gaze"] = [base |-> 200, alpha |-> 255]
    /\ Ticked
    /\ lastTick.emitted = <<"gestureBegin">>
    /\ dstate = "gaze"
    /\ dstatus = "idle"

\* C26: the detector is constructed idle with no poll timer, and whenever
\* idleMode was the most recent mode call (the status is "idle") no poll
\* timer is live, so that no tick can run; until listenMode or scanMode is
\* first called no tick has run and no event was emitted.
C26_IdleHasNoTimer ==
    /\ dstatus = "idle" => intervals = {} /\ ~ ENABLED Tick
    /\ nextId = 1 =>
           /\ dstatus = "idle"
           /\ interval = 0
           /\ ~ Ticked
           /\ lastTick.emitted = <<>>
           /\ dstate = "rest"

\* idleMode was called after a timer had ticked in scan mode and emitted a
\* "gestureBegin": nothing is live any more.
C26_Witness ==
    /\ dstatus = "idle"
    /\ intervals = {}
    /\ interval # 0
    /\ Ticked
    /\ lastTick.emitted = <<"gestureBegin">>

\* C33: the events one detector emits alternate, beginning with a
\* "gestureBegin": a poll tick emits at most one event, a "gestureBegin" only
\* if the event emitted last before it was a "gestureEnd" or there was none,
\* and a "gestureEnd" only if the event emitted last before it was a
\* "gestureBegin", whatever mode switches happened in between.
C33_BeginEndAlternate ==
    /\ Len(lastTick.emitted) <= 1
    /\ \A i \in 1..Len(lastTick.emitted) :
           /\ lastTick.emitted[i] = "gestureBegin" =>
                  lastTick.prior \in {"none", "gestureEnd"}
           /\ lastTick.emitted[i] = "gestureEnd" => lastTick.prior = "gestureBegin"
    /\ LastEvent = "gestureBegin" <=> dstate = "gaze"

\* The second poll timer, started by a mode switch, emits the "gestureEnd"
\* of a gaze that began before.
C33_Witness ==
    /\ lastTick.timer = 2
    /\ lastTick.emitted = <<"gestureEnd">>
    /\ lastTick.prior = "gestureBegin"
    /\ dstatus = "scanning"

\* C34: the live poll timers have the period of the mode selected last:
\* 200 ms (1000 / 5) in listen mode, 50 ms (1000 / 20) in scan mode, and
\* there is none in idle mode; in listen and scan mode the timer that
\* my.interval names is live.
C34_PeriodMatchesMode ==
    /\ \A t \in intervals :
           /\ dstatus # "idle"
           /\ dstatus = "listening" => t.period = 200
           /\ dstatus = "scanning" => t.period = 50
    /\ dstatus \in {"listening", "scanning"} => \E t \in intervals : t.id = interval

\* The second timer, started by scanMode, is the live one and has ticked.
C34_Witness ==
    /\ dstatus = "scanning"
    /\ intervals = {[id |-> 2, period |-> 50]}
    /\ lastTick.timer = 2

(***************************************************************************)
(* Properties of the modular buttons (checked under ButtonSpec).           *)
(***************************************************************************)
\* C27: one call of that.action() of a button of any kind emits
\* "buttonFinished" exactly once: never before the collaborator it waits
\* for has called back, once as soon as nothing is awaited any more, and
\* never a second time, after a failed send as after a successful one.
C27_FinishedExactlyOnce ==
    \A i \in 1..Len(invocations) :
        /\ invocations[i].emitted = IF invocations[i].pending = "none" THEN 1 ELSE 0
        /\ invocations[i].kind \in {"text", "menuSelector"} => invocations[i].pending = "none"

C27_Witness ==
    /\ Len(invocations) = MaxActions
    /\ \E i \in 1..Len(invocations) :
           /\ invocations[i].kind = "email"
           /\ invocations[i].said = "An error ocurred."
           /\ invocations[i].pending = "none"
           /\ invocations[i].emitted = 1
    /\ \E i \in 1..Len(invocations) :
           /\ invocations[i].kind = "bufferAction"
           /\ invocations[i].emitted = 1
    /\ \E i \in 1..Len(invocations) :
           /\ invocations[i].kind = "menuSelector"
           /\ invocations[i].slidDown
           /\ invocations[i].emitted = 1

\* C39: a listener registered with addFinishedListener is invoked at most
\* once: it stays registered as long as its button has emitted no
\* "buttonFinished" since the registration, the first such event invokes and
\* removes it, and later events of the button do not invoke it.
C39_ListenerFiresOnce ==
    \A i \in 1..Len(registrations) :
        LET r == registrations[i]
        IN  /\ r.calls <= 1
            /\ r.active <=> Emitted(invocations, r.kind) = r.at
            /\ r.active => r.calls = 0
            /\ ~ r.active => r.calls = 1 /\ r.firedAt = r.at + 1

\* A listener was invoked by the completion that followed its registration
\* and not by the one after that.
C39_Witness ==
    \E i \in 1..Len(registrations) :
        /\ registrations[i].calls = 1
        /\ registrations[i].kind = "callBell"
        /\ Emitted(invocations, "callBell") = registrations[i].at + 2

(***************************************************************************)
(* Properties of the guess menu (checked under GuessSpec).                 *)
(***************************************************************************)
\* The guesses the word service gives for the text of the buffer.
GuessesForBuffer ==
    IF bufferText = "" THEN repeat("", N_GUESSES)
    ELSE success(searchResults(searchTerm(bufferText)))

\* No query is in flight, and the query for the latest text was answered.
AllAnswered ==
    /\ queries # <<>>
    /\ \A i \in 1..Len(queries) : queries[i].state # "sent"
    /\ queries[Len(queries)].state \in {"answered", "none"}

\* C38 as stated: once every query has completed, the latest of them with an
\* answer, the guess buttons display the guesses for the text of the buffer.
C38_GuessesOfLatestText == AllAnswered => guessValues = GuessesForBuffer

====
